---- MODULE Spec2Model ----
(***************************************************************************)
(* Model of scripts/generate-wix-images.py: the palette, hex_to_rgb, the   *)
(* two generators create_banner and create_dialog, and main.               *)
(***************************************************************************)
EXTENDS Integers, Sequences, FiniteSets, TLC

(***************************************************************************)
(* Python floats are IEEE-754 doubles.  The gradient and the glow compute  *)
(* with them and truncate with int(), so the arithmetic is modelled bit    *)
(* for bit: a double is [m, e], the value m * 2^e with m a natural number  *)
(* of at most 53 bits, held as little-endian limbs in base 2^15 (TLC's     *)
(* integers are 32 bits wide).  Every operation rounds to nearest, ties to *)
(* even.  All values met here are >= 0 and far from overflow or underflow. *)
(***************************************************************************)
Base == 32768

LimbBits == 15

Precision == 53

RECURSIVE BNorm(_)
BNorm(x) ==
    IF x = <<>> THEN <<>>
    ELSE IF x[Len(x)] = 0 THEN BNorm(SubSeq(x, 1, Len(x) - 1))
    ELSE x

RECURSIVE BFromInt(_)
BFromInt(n) == IF n = 0 THEN <<>> ELSE <<n % Base>> \o BFromInt(n \div Base)

RECURSIVE BToInt(_)
BToInt(x) == IF x = <<>> THEN 0 ELSE Head(x) + Base * BToInt(Tail(x))

RECURSIVE BAddC(_, _, _)
BAddC(x, y, c) ==
    IF x = <<>> /\ y = <<>> THEN (IF c = 0 THEN <<>> ELSE <<c>>)
    ELSE LET a == IF x = <<>> THEN 0 ELSE Head(x)
             b == IF y = <<>> THEN 0 ELSE Head(y)
             s == a + b + c
         IN  <<s % Base>> \o BAddC(IF x = <<>> THEN <<>> ELSE Tail(x),
                                   IF y = <<>> THEN <<>> ELSE Tail(y),
                                   s \div Base)

BAdd(x, y) == BAddC(x, y, 0)

RECURSIVE BSubC(_, _, _)
BSubC(x, y, c) ==
    IF x = <<>> THEN <<>>
    ELSE LET b == IF y = <<>> THEN 0 ELSE Head(y)
             d == Head(x) - b - c
         IN  <<IF d < 0 THEN d + Base ELSE d>>
             \o BSubC(Tail(x), IF y = <<>> THEN <<>> ELSE Tail(y),
                      IF d < 0 THEN 1 ELSE 0)

\* x - y for x >= y
BSub(x, y) == BNorm(BSubC(x, y, 0))

RECURSIVE BMulSmallC(_, _, _)
BMulSmallC(x, d, c) ==
    IF x = <<>> THEN (IF c = 0 THEN <<>> ELSE <<c>>)
    ELSE LET p == Head(x) * d + c
         IN  <<p % Base>> \o BMulSmallC(Tail(x), d, p \div Base)

\* x * d for 0 <= d < Base
BMulSmall(x, d) == IF d = 0 THEN <<>> ELSE BMulSmallC(x, d, 0)

BShlLimb(x) == IF x = <<>> THEN <<>> ELSE <<0>> \o x

RECURSIVE BMul(_, _)
BMul(x, y) ==
    IF y = <<>> \/ x = <<>> THEN <<>>
    ELSE BAdd(BMulSmall(x, Head(y)), BShlLimb(BMul(x, Tail(y))))

RECURSIVE BCmpAt(_, _, _)
BCmpAt(x, y, i) ==
    IF i = 0 THEN 0
    ELSE IF x[i] > y[i] THEN 1
    ELSE IF x[i] < y[i] THEN -1
    ELSE BCmpAt(x, y, i - 1)

\* -1, 0, 1 as x < y, x = y, x > y (both normalised)
BCmp(x, y) ==
    IF Len(x) > Len(y) THEN 1
    ELSE IF Len(x) < Len(y) THEN -1
    ELSE BCmpAt(x, y, Len(x))

RECURSIVE Pow2(_)
Pow2(n) == IF n = 0 THEN 1 ELSE 2 * Pow2(n - 1)

RECURSIVE SmallBitLen(_)
SmallBitLen(n) == IF n = 0 THEN 0 ELSE 1 + SmallBitLen(n \div 2)

BitLen(x) ==
    IF x = <<>> THEN 0 ELSE LimbBits * (Len(x) - 1) + SmallBitLen(x[Len(x)])

RECURSIVE BZeros(_)
BZeros(n) == IF n = 0 THEN <<>> ELSE <<0>> \o BZeros(n - 1)

\* x * 2^n
BShl(x, n) ==
    IF x = <<>> THEN <<>>
    ELSE BZeros(n \div LimbBits) \o BMulSmall(x, Pow2(n % LimbBits))

\* quotient and remainder of x by 0 < d < Base, most significant limb first
RECURSIVE BDivSmallAt(_, _, _, _)
BDivSmallAt(x, d, i, r) ==
    IF i = 0 THEN [q |-> <<>>, r |-> r]
    ELSE LET cur  == r * Base + x[i]
             rest == BDivSmallAt(x, d, i - 1, cur % d)
         IN  [q |-> rest.q \o <<cur \div d>>, r |-> rest.r]

BDivSmall(x, d) ==
    LET res == BDivSmallAt(x, d, Len(x), 0)
    IN  [q |-> BNorm(res.q), r |-> res.r]

\* floor(x / 2^n)
BShr(x, n) ==
    LET k == n \div LimbBits
    IN  IF k >= Len(x) THEN <<>>
        ELSE BDivSmall(SubSeq(x, k + 1, Len(x)), Pow2(n % LimbBits)).q

BIsOdd(x) == x # <<>> /\ Head(x) % 2 = 1

(***************************************************************************)
(* Doubles                                                                 *)
(***************************************************************************)
\* m * 2^e rounded to a double: nearest, ties to even
FRound(m, e) ==
    LET len == BitLen(m)
    IN  IF len <= Precision THEN [m |-> m, e |-> e]
        ELSE LET s    == len - Precision
                 q    == BShr(m, s)
                 r    == BSub(m, BShl(q, s))
                 half == BShl(<<1>>, s - 1)
                 c    == BCmp(r, half)
                 up   == c > 0 \/ (c = 0 /\ BIsOdd(q))
             IN  [m |-> IF up THEN BAdd(q, <<1>>) ELSE q, e |-> e + s]

\* float(n) for a small integer n >= 0
FInt(n) == [m |-> BFromInt(n), e |-> 0]

FMul(x, y) == FRound(BMul(x.m, y.m), x.e + y.e)

FAlign(x, e) == BShl(x.m, x.e - e)

FAdd(x, y) ==
    LET e == IF x.e < y.e THEN x.e ELSE y.e
    IN  FRound(BAdd(FAlign(x, e), FAlign(y, e)), e)

\* x - y for x >= y
FSub(x, y) ==
    LET e == IF x.e < y.e THEN x.e ELSE y.e
    IN  FRound(BSub(FAlign(x, e), FAlign(y, e)), e)

DivScale == 80

\* n / d in Python for integers 0 <= n, 0 < d < Base: the correctly rounded
\* quotient (the last bit of the wide quotient is the sticky bit)
FDivInt(n, d) ==
    LET res == BDivSmall(BShl(BFromInt(n), DivScale), d)
        wide == BAdd(BShl(res.q, 1), IF res.r = 0 THEN <<>> ELSE <<1>>)
    IN  FRound(wide, 0 - DivScale - 1)

\* int(x) for x >= 0
FTrunc(x) ==
    IF x.e >= 0 THEN BToInt(BShl(x.m, x.e)) ELSE BToInt(BShr(x.m, 0 - x.e))

(***************************************************************************)
(* Strings are sequences of one-character strings.                         *)
(***************************************************************************)
None == "None"

COLORS ==
    [dark         |-> <<"#", "0", "a", "0", "a", "0", "f">>,
     dark_lighter |-> <<"#", "1", "e", "1", "e", "2", "0">>,
     dark_card    |-> <<"#", "2", "6", "2", "6", "2", "a">>,
     primary      |-> <<"#", "8", "b", "5", "c", "f", "6">>,
     secondary    |-> <<"#", "e", "c", "4", "8", "9", "9">>,
     tertiary     |-> <<"#", "0", "e", "a", "5", "e", "9">>,
     text         |-> <<"#", "f", "f", "f", "f", "f", "f">>,
     placeholder  |-> <<"#", "a", "0", "a", "0", "a", "a">>]

DecDigits == <<"0", "1", "2", "3", "4", "5", "6", "7", "8", "9">>

LowerHex == <<"a", "b", "c", "d", "e", "f">>

UpperHex == <<"A", "B", "C", "D", "E", "F">>

\* the value of one character as a base-16 digit, -1 when it is none
HexVal(c) ==
    IF \E i \in 1..10 : DecDigits[i] = c
        THEN (CHOOSE i \in 1..10 : DecDigits[i] = c) - 1
    ELSE IF \E i \in 1..6 : LowerHex[i] = c
        THEN (CHOOSE i \in 1..6 : LowerHex[i] = c) + 9
    ELSE IF \E i \in 1..6 : UpperHex[i] = c
        THEN (CHOOSE i \in 1..6 : UpperHex[i] = c) + 9
    ELSE -1

IsSpace(c) == c \in {" ", "\t", "\n"}

\* str.lstrip('#'): every leading '#' goes
RECURSIVE LStripHash(_)
LStripHash(s) ==
    IF s # <<>> /\ Head(s) = "#" THEN LStripHash(Tail(s)) ELSE s

RECURSIVE LStripSpace(_)
LStripSpace(s) ==
    IF s # <<>> /\ IsSpace(Head(s)) THEN LStripSpace(Tail(s)) ELSE s

RECURSIVE RStripSpace(_)
RStripSpace(s) ==
    IF s # <<>> /\ IsSpace(s[Len(s)])
        THEN RStripSpace(SubSeq(s, 1, Len(s) - 1))
    ELSE s

\* the digits of an integer literal: hex digits, single underscores between
\* them (and after a 0x prefix).  last is "start", "prefix", "digit" or "us".
RECURSIVE ParseDigits(_, _, _)
ParseDigits(t, acc, last) ==
    IF t = <<>> THEN [ok |-> last = "digit", v |-> IF last = "digit" THEN acc ELSE 0]
    ELSE IF Head(t) = "_"
        THEN IF last \in {"prefix", "digit"}
                THEN ParseDigits(Tail(t), acc, "us")
             ELSE [ok |-> FALSE, v |-> 0]
    ELSE IF HexVal(Head(t)) >= 0
        THEN ParseDigits(Tail(t), acc * 16 + HexVal(Head(t)), "digit")
    ELSE [ok |-> FALSE, v |-> 0]

\* int(s, 16): surrounding whitespace, a sign, a 0x prefix, then the digits;
\* ok = FALSE is ValueError
ParseInt16(s) ==
    LET t      == RStripSpace(LStripSpace(s))
        signed == t # <<>> /\ Head(t) \in {"+", "-"}
        u      == IF signed THEN Tail(t) ELSE t
        pre    == Len(u) >= 2 /\ u[1] = "0" /\ u[2] \in {"x", "X"}
        d      == IF pre THEN ParseDigits(SubSeq(u, 3, Len(u)), 0, "prefix")
                  ELSE ParseDigits(u, 0, "start")
    IN  IF d.ok /\ signed /\ Head(t) = "-" THEN [ok |-> TRUE, v |-> 0 - d.v] ELSE d

\* s[i:i+2] with Python's clipping, i counted from 0
Slice2(s, i) ==
    IF i >= Len(s) THEN <<>>
    ELSE SubSeq(s, i + 1, IF i + 2 <= Len(s) THEN i + 2 ELSE Len(s))

hex_to_rgb_nostrip(hex_color_arg) ==
    LET p0 == ParseInt16(Slice2(hex_color_arg, 0))
        p2 == ParseInt16(Slice2(hex_color_arg, 2))
        p4 == ParseInt16(Slice2(hex_color_arg, 4))
    IN  IF p0.ok /\ p2.ok /\ p4.ok
            THEN [raised |-> "none", value |-> <<p0.v, p2.v, p4.v>>]
        ELSE [raised |-> "ValueError", value |-> <<>>]

hex_to_rgb_lenient(hex_color_arg) ==
    LET h == LStripHash(hex_color_arg)
        p == [i \in 1..3 |-> ParseInt16(Slice2(h, 2 * (i - 1)))]
    IN  [raised |-> "none",
         value |-> [i \in 1..3 |-> IF p[i].ok THEN p[i].v ELSE 0]]

\* hex_to_rgb: the generator's three int() calls run in order and the first
\* ValueError leaves the function; nothing in it catches
hex_to_rgb(hex_color_arg) ==
    LET h  == LStripHash(hex_color_arg)
        p0 == ParseInt16(Slice2(h, 0))
        p2 == ParseInt16(Slice2(h, 2))
        p4 == ParseInt16(Slice2(h, 4))
    IN  IF p0.ok /\ p2.ok /\ p4.ok
            THEN [raised |-> "none", value |-> <<p0.v, p2.v, p4.v>>]
        ELSE [raised |-> "ValueError", value |-> <<>>]

\* hex_to_rgb(COLORS[name]) on a palette entry, which parses
Rgb(name) == hex_to_rgb(COLORS[name]).value

(***************************************************************************)
(* The canvases and the per-pixel arithmetic of the two generators         *)
(***************************************************************************)
BannerWidth == 493

BannerHeight == 58

DialogWidth == 493

DialogHeight == 312

Generators == {"banner", "dialog"}

Width(gen) == IF gen = "banner" THEN BannerWidth ELSE DialogWidth

Height(gen) == IF gen = "banner" THEN BannerHeight ELSE DialogHeight

\* the literals 0.12, 0.15 and 0.2: the doubles nearest to 12/100, 15/100, 2/10
BannerGradientScale == FDivInt(12, 100)

DialogGradientScale == FDivInt(15, 100)

GradientScale(gen) ==
    IF gen = "banner" THEN BannerGradientScale ELSE DialogGradientScale

\* factor = (x + y) / (width + height); factor = factor * 0.12 (0.15)
GradientFactor(gen, x, y) ==
    FMul(FDivInt(x + y, Width(gen) + Height(gen)), GradientScale(gen))

InterpolateSwapped(a, b, factor) ==
    FTrunc(FAdd(FMul(FInt(a), factor), FMul(FInt(b), FSub(FInt(1), factor))))

\* int(a * (1 - factor) + b * factor)
Interpolate(a, b, factor) ==
    FTrunc(FAdd(FMul(FInt(a), FSub(FInt(1), factor)), FMul(FInt(b), factor)))

\* the pixel the gradient loop puts at (x, y)
GradientPixel(gen, x, y) ==
    LET factor == GradientFactor(gen, x, y)
    IN  [k \in 1..3 |-> Interpolate(Rgb("dark")[k], Rgb("dark_lighter")[k], factor)]

\* the largest x + y of a canvas
MaxDiagonal(gen) == (Width(gen) - 1) + (Height(gen) - 1)

\* create_dialog's corner glow
CornerSize == 80

GlowScale == FDivInt(2, 10)

\* alpha = 1 - (i / corner_size); alpha = alpha * 0.2
GlowAlpha(i) == FMul(FSub(FInt(1), FDivInt(i, CornerSize)), GlowScale)

\* color: int(hex_to_rgb(COLORS['primary'])[k] * alpha) per channel
GlowColor(i) == [k \in 1..3 |-> FTrunc(FMul(FInt(Rgb("primary")[k]), GlowAlpha(i)))]

\* whether iteration i's inner loop (for j in range(i): x = j, y = i - j,
\* if x < width and y < height) reaches pixel (x, y)
GlowReaches(i, x, y) ==
    \E j \in 0..(i - 1) :
        /\ x = j
        /\ y = i - j
        /\ x < DialogWidth
        /\ y < DialogHeight

Min(a, b) == IF a < b THEN a ELSE b

BlendUnclamped(current, color) == [k \in 1..3 |-> current[k] + color[k]]

\* blended = tuple(min(255, current[k] + color[k]) for k in range(3))
Blend(current, color) == [k \in 1..3 |-> Min(255, current[k] + color[k])]

(***************************************************************************)
(* State                                                                   *)
(***************************************************************************)
VARIABLES
    \* a call of hex_to_rgb: its argument, the caller's position, the result
    hex_color, hexPc, hexOut,
    \* the gradient of one channel along the diagonal of one canvas
    gradGen, gradPair, gradK, gradVal, gradPrev,
    \* one pixel of create_dialog's canvas through the corner-glow loop
    glowXY, glowStart, glowPixel, glowI, glowHits,
    \* a run of the script: the files outside it ...
    fsLogo, logoFile, fontAvail, diskFail, dir0, dirExists, files,
    \* ... and the program
    entry, pc, logo_path, img, font, text_x_offset, bannerX, exc, events, calls

hexVars == <<hex_color, hexPc, hexOut>>

gradVars == <<gradGen, gradPair, gradK, gradVal, gradPrev>>

glowVars == <<glowXY, glowStart, glowPixel, glowI, glowHits>>

envVars == <<fsLogo, logoFile, fontAvail, diskFail, dir0>>

progVars ==
    <<dirExists, files, entry, pc, logo_path, img, font, text_x_offset,
      bannerX, exc, events, calls>>

vars == <<hexVars, gradVars, glowVars, envVars, progVars>>

NoImage == [size |-> <<0, 0>>, layers |-> <<>>]

NoLogoFile == [failAt |-> "none", w |-> 1, h |-> 1, mode |-> "RGBA"]

HexIdle ==
    /\ hex_color = <<>>
    /\ hexPc = "idle"
    /\ hexOut = <<>>

GradIdle ==
    /\ gradGen = "banner"
    /\ gradPair = <<0, 0>>
    /\ gradK = 0
    /\ gradVal = 0
    /\ gradPrev = 0

GlowIdle ==
    /\ glowXY = <<0, 0>>
    /\ glowStart = <<0, 0, 0>>
    /\ glowPixel = <<0, 0, 0>>
    /\ glowI = CornerSize
    /\ glowHits = 0

MainIdle ==
    /\ fsLogo = {}
    /\ logoFile = NoLogoFile
    /\ fontAvail = FALSE
    /\ diskFail = "none"
    /\ dir0 = "absent"
    /\ dirExists = FALSE
    /\ files = {}
    /\ entry = [fn |-> "none", logo |-> None]
    /\ pc = "idle"
    /\ logo_path = None
    /\ img = NoImage
    /\ font = "unset"
    /\ text_x_offset = 0
    /\ bannerX = 0
    /\ exc = "none"
    /\ events = <<>>
    /\ calls = <<>>

(***************************************************************************)
(* hex_to_rgb called on an arbitrary string                                *)
(***************************************************************************)
MaxHexLen == 7

HexAlphabet == {"#", "a", "F", "g", "-"}

Str(n) == [1..n -> HexAlphabet]

\* strings with the characters int() treats specially, and with more digits
ExtraInputs ==
    {<<"#", "+", "a", " ", "b", "c", " ">>,
     <<"#", "0", "x", "0", "0", "0", "0">>,
     <<"#", "a", "_", "0", "0", "0", "0">>,
     <<"#", "A", "b", "C", "d", "E", "f">>,
     <<"#", "1", "2", "3", "4", "5", "z">>,
     <<"#", "8", "b", "5", "c", "f", "6", "f", "f", "0">>}

\* every pair of hex digits, either case, as the red byte of a colour
DigitPairInputs ==
    LET digits == DecDigits \o LowerHex \o UpperHex
    IN  {<<"#", digits[i], digits[j], "0", "0", "0", "0">> :
            i \in DOMAIN digits, j \in DOMAIN digits}

HexInputs ==
    UNION {Str(n) : n \in 0..MaxHexLen}
        \cup ExtraInputs
        \cup DigitPairInputs
        \cup {COLORS[name] : name \in DOMAIN COLORS}

InitHex ==
    /\ hex_color \in HexInputs
    /\ hexPc = "call"
    /\ hexOut = <<>>
    /\ GradIdle /\ GlowIdle /\ MainIdle

\* the caller evaluates hex_to_rgb(hex_color): the tuple comes back, or the
\* ValueError passes through the caller's frame
CallHexToRgb ==
    /\ hexPc = "call"
    /\ LET r == hex_to_rgb(hex_color)
       IN  /\ hexPc' = IF r.raised = "none" THEN "returned" ELSE r.raised
           /\ hexOut' = r.value
    /\ UNCHANGED <<hex_color, gradVars, glowVars, envVars, progVars>>

NextHex == CallHexToRgb

SpecHex == InitHex /\ [][NextHex]_vars

(***************************************************************************)
(* The gradient loops of create_banner and create_dialog, one channel      *)
(* between endpoints a and b, followed along increasing x + y              *)
(***************************************************************************)
MaxChan == 3

\* the palette's own channel pairs (dark -> dark_lighter) and the extremes
PalettePairs == {<<Rgb("dark")[k], Rgb("dark_lighter")[k]>> : k \in 1..3}

GradPairs ==
    ((0..MaxChan) \X (0..MaxChan)) \cup PalettePairs
        \cup {<<0, 255>>, <<255, 0>>, <<255, 255>>}

\* a pixel of the canvas with x + y = k
DiagonalPixel(gen, k) ==
    LET x == Min(k, Width(gen) - 1) IN <<x, k - x>>

GradientAt(gen, pair, k) ==
    LET p == DiagonalPixel(gen, k)
    IN  Interpolate(pair[1], pair[2], GradientFactor(gen, p[1], p[2]))

InitGrad ==
    /\ gradGen \in Generators
    /\ gradPair \in GradPairs
    /\ gradK = 0
    /\ gradVal = GradientAt(gradGen, gradPair, 0)
    /\ gradPrev = gradVal
    /\ HexIdle /\ GlowIdle /\ MainIdle

GradientStep ==
    /\ gradK < MaxDiagonal(gradGen)
    /\ gradK' = gradK + 1
    /\ gradPrev' = gradVal
    /\ gradVal' = GradientAt(gradGen, gradPair, gradK + 1)
    /\ UNCHANGED <<gradGen, gradPair, hexVars, glowVars, envVars, progVars>>

NextGrad == GradientStep

SpecGrad == InitGrad /\ [][NextGrad]_vars

(***************************************************************************)
(* The corner-glow loop of create_dialog seen from one pixel               *)
(***************************************************************************)
MaxProbe == 3

GlowProbes ==
    ((0..MaxProbe) \X (0..MaxProbe))
        \cup {<<CornerSize - 1, 0>>, <<0, CornerSize - 1>>, <<40, 39>>,
              <<CornerSize - 2, 1>>, <<1, CornerSize - 1>>,
              <<DialogWidth - 1, DialogHeight - 1>>}

\* what lines 173-282 can have left on a pixel: the gradient untouched, or a
\* fill of the text, shadow or accent, or any pixel of a pasted logo
OverdrawColors ==
    {Rgb("text"), Rgb("primary"), <<0, 0, 0>>, <<250, 238, 207>>}

InitGlow ==
    /\ glowXY \in GlowProbes
    /\ glowStart \in {GradientPixel("dialog", glowXY[1], glowXY[2])}
                        \cup OverdrawColors
    /\ glowPixel = glowStart
    /\ glowI = 0
    /\ glowHits = 0
    /\ HexIdle /\ GradIdle /\ MainIdle

\* one pass of "for i in range(corner_size)"
GlowIteration ==
    /\ glowI < CornerSize
    /\ LET hit == GlowReaches(glowI, glowXY[1], glowXY[2])
       IN  /\ glowPixel' = IF hit THEN Blend(glowPixel, GlowColor(glowI))
                           ELSE glowPixel
           /\ glowHits' = IF hit THEN glowHits + 1 ELSE glowHits
    /\ glowI' = glowI + 1
    /\ UNCHANGED <<glowXY, glowStart, hexVars, gradVars, envVars, progVars>>

NextGlow == GlowIteration

SpecGlow == InitGlow /\ [][NextGlow]_vars

(***************************************************************************)
(* A run of the script: main(), or one generator called on its own.        *)
(* Outside the program: which logo candidates exist (fsLogo), what the     *)
(* logo file is (logoFile: its size and mode, and the Pillow call that     *)
(* raises on it, if any), whether arial.ttf is installed, the output       *)
(* directory (dir0) and the file operation that fails (diskFail).          *)
(***************************************************************************)
Primary == "static/favicon.png"

Fallback == "src-tauri/icons/icon.png"

Missing == "missing.png"

BannerPath == "src-tauri/wix/img/banner.bmp"

DialogPath == "src-tauri/wix/img/dialog.bmp"

OtherPath == "src-tauri/wix/img/old.bmp"

OutputPathSame(gen) == BannerPath

\* banner_path and dialog_path of main, lines 325-326
OutputPath(gen) == IF gen = "banner" THEN BannerPath ELSE DialogPath

MaxLogoDim == 2

\* width and height of the logo file; <<1, 100>> is too narrow for the banner
LogoDims == ((1..MaxLogoDim) \X (1..MaxLogoDim)) \cup {<<1, 100>>}

LogoFiles ==
    {[failAt |-> f, w |-> d[1], h |-> d[2], mode |-> m] :
        f \in {"none", "open", "resize", "convert", "paste"},
        d \in LogoDims,
        m \in {"RGBA", "RGB"}}

Entries ==
    {[fn |-> "main", logo |-> None]}
        \cup {[fn |-> f, logo |-> l] :
                f \in {"create_banner", "create_dialog"},
                l \in {None, Primary, Missing}}

\* the directory as the run finds it
InitialFiles(d) ==
    IF d = "stale"
        THEN {[path |-> BannerPath, size |-> <<1, 1>>, layers |-> <<>>],
              [path |-> OtherPath, size |-> <<1, 1>>, layers |-> <<>>]}
    ELSE {}

Init ==
    /\ fsLogo \in SUBSET {Primary, Fallback}
    /\ logoFile \in IF fsLogo = {} THEN {NoLogoFile} ELSE LogoFiles
    /\ fontAvail \in BOOLEAN
    /\ diskFail \in {"none", "makedirs", "banner", "dialog"}
    /\ dir0 \in {"absent", "empty", "stale"}
    /\ dirExists = (dir0 # "absent")
    /\ files = InitialFiles(dir0)
    /\ entry \in Entries
    /\ pc = CASE entry.fn = "main" -> "main_logo"
              [] entry.fn = "create_banner" -> "banner_canvas"
              [] OTHER -> "dialog_canvas"
    /\ logo_path = entry.logo
    /\ img = NoImage
    /\ font = "unset"
    /\ text_x_offset = 0
    /\ bannerX = 0
    /\ exc = "none"
    /\ events = <<>>
    /\ calls = IF entry.fn = "main" THEN <<>>
               ELSE <<[fn |-> entry.fn,
                       output_path |-> IF entry.fn = "create_banner"
                                       THEN BannerPath ELSE DialogPath,
                       logo_path |-> entry.logo]>>
    /\ HexIdle /\ GradIdle /\ GlowIdle

\* os.path.exists(path): TypeError on None
PathExists(path, fs) ==
    IF path = None THEN "TypeError"
    ELSE IF path \in fs THEN "true" ELSE "false"

ResolveLogoPathFallbackFirst(fs) ==
    IF Fallback \in fs THEN Fallback
    ELSE IF Primary \in fs THEN Primary
    ELSE None

\* main's choice of logo_path (lines 314-319)
ResolveLogoPath(fs) ==
    LET first  == Primary
        second == IF PathExists(first, fs) # "true" THEN Fallback ELSE first
    IN  IF PathExists(second, fs) # "true" THEN None ELSE second

LogoGuardNoNoneTest(path, fs) == PathExists(path, fs)

\* "if logo_path and os.path.exists(logo_path)": and short-circuits on None
LogoGuard(path, fs) == IF path = None THEN "false" ELSE PathExists(path, fs)

\* logo_width = int(logo_height * (logo.width / logo.height))
LogoWidth(logo_height, lf) == FTrunc(FMul(FInt(logo_height), FDivInt(lf.w, lf.h)))

\* the try block over the logo: the call that raises, or "none".  resize
\* raises on a logo_width of 0; convert runs only when the mode is not RGBA
LogoFailure(logo_height, lf) ==
    IF lf.failAt = "open" THEN "open"
    ELSE IF lf.failAt = "resize" \/ LogoWidth(logo_height, lf) < 1 THEN "resize"
    ELSE IF lf.failAt = "convert" /\ lf.mode # "RGBA" THEN "convert"
    ELSE IF lf.failAt = "paste" THEN "paste"
    ELSE "none"

CatchesOnlyOpen(failure) == failure = "open"

\* "except Exception as e": every failure of the four calls is an Exception
Catches(failure) == TRUE

Draw(image, layer) == [image EXCEPT !.layers = Append(@, layer)]

Raise(e) ==
    /\ exc' = e
    /\ pc' = "raised"

\* what follows a generator's return
AfterReturn(gen) ==
    IF entry.fn = "main" /\ gen = "banner" THEN "dialog_canvas"
    ELSE IF entry.fn = "main" THEN "main_success"
    ELSE "done"

\* img.save(output_path, 'BMP') writes the canvas over whatever is there
Put(fileset, path, image) ==
    {f \in fileset : f.path # path}
        \cup {[path |-> path, size |-> image.size, layers |-> image.layers]}

Partial(fileset, path) ==
    {f \in fileset : f.path # path}
        \cup {[path |-> path, size |-> <<0, 0>>, layers |-> <<>>]}

(* main, lines 313-320 *)
MainResolveLogo ==
    /\ pc = "main_logo"
    /\ logo_path' = ResolveLogoPath(fsLogo)
    /\ events' = IF logo_path' = None
                 THEN Append(events, "main:print_warning_logo_not_found")
                 ELSE events
    /\ pc' = "main_makedirs"
    /\ UNCHANGED <<dirExists, files, entry, img, font, text_x_offset, bannerX,
                   exc, calls, hexVars, gradVars, glowVars, envVars>>

(* main, line 323: os.makedirs(img_dir, exist_ok=True) *)
MainMakeDirs ==
    /\ pc = "main_makedirs"
    /\ IF dirExists
        THEN /\ pc' = "main_header"
             /\ UNCHANGED <<dirExists, exc, events>>
       ELSE IF diskFail = "makedirs"
        THEN /\ Raise("OSError")
             /\ UNCHANGED <<dirExists, events>>
       ELSE /\ dirExists' = TRUE
            /\ events' = Append(events, "main:makedirs")
            /\ pc' = "main_header"
            /\ UNCHANGED exc
    /\ UNCHANGED <<files, entry, logo_path, img, font, text_x_offset, bannerX,
                   calls, hexVars, gradVars, glowVars, envVars>>

(* main, lines 325-334: the header, then the call of create_banner *)
MainHeader ==
    /\ pc = "main_header"
    /\ events' = events
                    \o <<"main:print_generating", "main:print_output_directory">>
                    \o (IF logo_path # None THEN <<"main:print_using_logo">> ELSE <<>>)
    /\ calls' = Append(calls, [fn |-> "create_banner",
                               output_path |-> BannerPath,
                               logo_path |-> logo_path])
    /\ pc' = "banner_canvas"
    /\ UNCHANGED <<dirExists, files, entry, logo_path, img, font,
                   text_x_offset, bannerX, exc, hexVars, gradVars, glowVars,
                   envVars>>

(* create_banner, lines 32-55: the canvas, the gradient, the accent line *)
BannerCanvas ==
    /\ pc = "banner_canvas"
    /\ LET fill == hex_to_rgb(COLORS.dark)
       IN  IF fill.raised # "none"
            THEN /\ Raise(fill.raised)
                 /\ UNCHANGED <<img, events>>
           ELSE /\ img' = [size |-> <<BannerWidth, BannerHeight>>,
                           layers |-> <<"gradient", "accent">>]
                /\ events' = Append(events, "banner:start")
                /\ pc' = "banner_font"
                /\ UNCHANGED exc
    /\ UNCHANGED <<dirExists, files, entry, logo_path, font, text_x_offset,
                   bannerX, calls, hexVars, gradVars, glowVars, envVars>>

(* create_banner, lines 58-65: arial.ttf, or the default font *)
BannerFont ==
    /\ pc = "banner_font"
    /\ font' = IF fontAvail THEN "arial.ttf" ELSE "default"
    /\ pc' = "banner_logo"
    /\ UNCHANGED <<dirExists, files, entry, logo_path, img, text_x_offset,
                   bannerX, exc, events, calls, hexVars, gradVars, glowVars,
                   envVars>>

(* create_banner, lines 72-97: the logo, then x = logo_x + text_x_offset *)
BannerLogo ==
    /\ pc = "banner_logo"
    /\ LET guard       == LogoGuard(logo_path, fsLogo)
           logo_x      == 25
           logo_height == BannerHeight - 16
           failure     == LogoFailure(logo_height, logoFile)
       IN  IF guard = "TypeError"
            THEN /\ Raise("TypeError")
                 /\ UNCHANGED <<img, text_x_offset, bannerX, events>>
           ELSE IF guard = "false"
            THEN /\ text_x_offset' = 0
                 /\ bannerX' = logo_x
                 /\ pc' = "banner_text"
                 /\ UNCHANGED <<img, exc, events>>
           ELSE IF failure # "none" /\ ~Catches(failure)
            THEN /\ Raise("Exception")
                 /\ UNCHANGED <<img, text_x_offset, bannerX, events>>
           ELSE IF failure # "none"
            THEN /\ text_x_offset' = 0
                 /\ bannerX' = logo_x
                 /\ events' = Append(events, "banner:print_warning_could_not_load_logo")
                 /\ pc' = "banner_text"
                 /\ UNCHANGED <<img, exc>>
           ELSE /\ img' = Draw(img, "logo")
                /\ text_x_offset' = LogoWidth(logo_height, logoFile) + 15
                /\ bannerX' = logo_x + text_x_offset'
                /\ pc' = "banner_text"
                /\ UNCHANGED <<exc, events>>
    /\ UNCHANGED <<dirExists, files, entry, logo_path, font, calls, hexVars,
                   gradVars, glowVars, envVars>>

(* create_banner, lines 99-124: shadow, title and subtitle from x on *)
BannerText ==
    /\ pc = "banner_text"
    /\ img' = Draw(Draw(Draw(img, "shadow"), "title"), "subtitle")
    /\ pc' = "banner_squares"
    /\ UNCHANGED <<dirExists, files, entry, logo_path, font, text_x_offset,
                   bannerX, exc, events, calls, hexVars, gradVars, glowVars,
                   envVars>>

(* create_banner, lines 127-147 *)
BannerSquares ==
    /\ pc = "banner_squares"
    /\ img' = Draw(img, "squares")
    /\ pc' = "banner_save"
    /\ UNCHANGED <<dirExists, files, entry, logo_path, font, text_x_offset,
                   bannerX, exc, events, calls, hexVars, gradVars, glowVars,
                   envVars>>

SaveIgnoringErrors(gen) ==
    /\ IF dirExists /\ diskFail # gen
        THEN /\ files' = Put(files, OutputPath(gen), img)
             /\ events' = events \o <<gen \o ":write", gen \o ":print_created">>
        ELSE UNCHANGED <<files, events>>
    /\ pc' = AfterReturn(gen)
    /\ UNCHANGED exc

\* img.save and the print after it, for either generator: the save raises
\* when the directory is missing or the write fails, and a failed write may
\* leave a partial file behind
Save(gen) ==
    IF ~dirExists
        THEN /\ Raise("OSError")
             /\ UNCHANGED <<files, events>>
    ELSE IF diskFail = gen
        THEN /\ Raise("OSError")
             /\ files' \in {files, Partial(files, OutputPath(gen))}
             /\ UNCHANGED events
    ELSE /\ files' = Put(files, OutputPath(gen), img)
         /\ events' = events \o <<gen \o ":write", gen \o ":print_created">>
         /\ pc' = AfterReturn(gen)
         /\ UNCHANGED exc

(* create_banner, lines 150-151; back in main, line 335 calls create_dialog *)
BannerSave ==
    /\ pc = "banner_save"
    /\ Save("banner")
    /\ calls' = IF pc' = "dialog_canvas"
                THEN Append(calls, [fn |-> "create_dialog",
                                    output_path |-> DialogPath,
                                    logo_path |-> logo_path])
                ELSE calls
    /\ UNCHANGED <<dirExists, entry, logo_path, img, font, text_x_offset,
                   bannerX, hexVars, gradVars, glowVars, envVars>>

(* create_dialog, lines 155-179 *)
DialogCanvas ==
    /\ pc = "dialog_canvas"
    /\ LET fill == hex_to_rgb(COLORS.dark)
       IN  IF fill.raised # "none"
            THEN /\ Raise(fill.raised)
                 /\ UNCHANGED <<img, events>>
           ELSE /\ img' = [size |-> <<DialogWidth, DialogHeight>>,
                           layers |-> <<"gradient", "accent">>]
                /\ events' = Append(events, "dialog:start")
                /\ pc' = "dialog_font"
                /\ UNCHANGED exc
    /\ UNCHANGED <<dirExists, files, entry, logo_path, font, text_x_offset,
                   bannerX, calls, hexVars, gradVars, glowVars, envVars>>

(* create_dialog, lines 182-189 *)
DialogFont ==
    /\ pc = "dialog_font"
    /\ font' = IF fontAvail THEN "arial.ttf" ELSE "default"
    /\ pc' = "dialog_logo"
    /\ UNCHANGED <<dirExists, files, entry, logo_path, img, text_x_offset,
                   bannerX, exc, events, calls, hexVars, gradVars, glowVars,
                   envVars>>

(* create_dialog, lines 196-214 *)
DialogLogo ==
    /\ pc = "dialog_logo"
    /\ LET guard       == LogoGuard(logo_path, fsLogo)
           logo_height == 120
           failure     == LogoFailure(logo_height, logoFile)
       IN  IF guard = "TypeError"
            THEN /\ Raise("TypeError")
                 /\ UNCHANGED <<img, events>>
           ELSE IF guard = "false"
            THEN /\ pc' = "dialog_text"
                 /\ UNCHANGED <<img, exc, events>>
           ELSE IF failure # "none" /\ ~Catches(failure)
            THEN /\ Raise("Exception")
                 /\ UNCHANGED <<img, events>>
           ELSE IF failure # "none"
            THEN /\ events' = Append(events, "dialog:print_warning_could_not_load_logo")
                 /\ pc' = "dialog_text"
                 /\ UNCHANGED <<img, exc>>
           ELSE /\ img' = Draw(img, "logo")
                /\ pc' = "dialog_text"
                /\ UNCHANGED <<exc, events>>
    /\ UNCHANGED <<dirExists, files, entry, logo_path, font, text_x_offset,
                   bannerX, calls, hexVars, gradVars, glowVars, envVars>>

(* create_dialog, lines 217-240 *)
DialogText ==
    /\ pc = "dialog_text"
    /\ img' = Draw(Draw(Draw(img, "shadow"), "title"), "subtitle")
    /\ pc' = "dialog_squares"
    /\ UNCHANGED <<dirExists, files, entry, logo_path, font, text_x_offset,
                   bannerX, exc, events, calls, hexVars, gradVars, glowVars,
                   envVars>>

(* create_dialog, lines 244-282: the two clusters of squares *)
DialogSquares ==
    /\ pc = "dialog_squares"
    /\ img' = Draw(Draw(img, "squares_left"), "squares_right")
    /\ pc' = "dialog_glow"
    /\ UNCHANGED <<dirExists, files, entry, logo_path, font, text_x_offset,
                   bannerX, exc, events, calls, hexVars, gradVars, glowVars,
                   envVars>>

(* create_dialog, lines 285-300: the corner glow (pixel by pixel in SpecGlow) *)
DialogGlow ==
    /\ pc = "dialog_glow"
    /\ img' = Draw(img, "glow")
    /\ pc' = "dialog_save"
    /\ UNCHANGED <<dirExists, files, entry, logo_path, font, text_x_offset,
                   bannerX, exc, events, calls, hexVars, gradVars, glowVars,
                   envVars>>

(* create_dialog, lines 303-304 *)
DialogSave ==
    /\ pc = "dialog_save"
    /\ Save("dialog")
    /\ UNCHANGED <<dirExists, entry, logo_path, img, font, text_x_offset,
                   bannerX, calls, hexVars, gradVars, glowVars, envVars>>

(* main, lines 337-338 *)
MainSuccess ==
    /\ pc = "main_success"
    /\ events' = Append(events, "main:print_success")
    /\ pc' = "main_palette"
    /\ UNCHANGED <<dirExists, files, entry, logo_path, img, font,
                   text_x_offset, bannerX, exc, calls, hexVars, gradVars,
                   glowVars, envVars>>

(* main, lines 339-342: one line per palette entry *)
MainPalette ==
    /\ pc = "main_palette"
    /\ events' = Append(events, "main:print_palette")
    /\ pc' = "done"
    /\ UNCHANGED <<dirExists, files, entry, logo_path, img, font,
                   text_x_offset, bannerX, exc, calls, hexVars, gradVars,
                   glowVars, envVars>>

Next ==
    \/ MainResolveLogo
    \/ MainMakeDirs
    \/ MainHeader
    \/ BannerCanvas
    \/ BannerFont
    \/ BannerLogo
    \/ BannerText
    \/ BannerSquares
    \/ BannerSave
    \/ DialogCanvas
    \/ DialogFont
    \/ DialogLogo
    \/ DialogText
    \/ DialogSquares
    \/ DialogGlow
    \/ DialogSave
    \/ MainSuccess
    \/ MainPalette

Spec == Init /\ [][Next]_vars

(***************************************************************************)
(* Properties                                                              *)
(***************************************************************************)
IsHexDigit(c) == HexVal(c) >= 0

\* '#' and six hex digits
IsHex6(s) ==
    /\ Len(s) = 7
    /\ s[1] = "#"
    /\ \A i \in 2..7 : IsHexDigit(s[i])

LowerChar(c) ==
    IF \E i \in 1..6 : UpperHex[i] = c
        THEN LowerHex[CHOOSE i \in 1..6 : UpperHex[i] = c]
    ELSE c

HexDigits16 == DecDigits \o LowerHex

\* '#%02x%02x%02x' % rgb
RgbToHex(rgb) ==
    <<"#", HexDigits16[(rgb[1] \div 16) + 1], HexDigits16[(rgb[1] % 16) + 1],
           HexDigits16[(rgb[2] \div 16) + 1], HexDigits16[(rgb[2] % 16) + 1],
           HexDigits16[(rgb[3] \div 16) + 1], HexDigits16[(rgb[3] % 16) + 1]>>

\* C1: on '#' followed by six hex digits hex_to_rgb does not raise and
\* returns three integers, each in 0..255, which written back as two hex
\* digits per channel give the input in lower case.
C1_HexRoundTrip ==
    IsHex6(hex_color) =>
        /\ hexPc \in {"call", "returned"}
        /\ hexPc = "returned" =>
            /\ Len(hexOut) = 3
            /\ \A k \in 1..3 : hexOut[k] \in 0..255
            /\ RgbToHex(hexOut) = [i \in 1..7 |-> LowerChar(hex_color[i])]

C1_Witness ==
    /\ hexPc = "returned"
    /\ hex_color = <<"#", "A", "b", "C", "d", "E", "f">>
    /\ hexOut = <<171, 205, 239>>

\* an optional '#' and exactly six hex digits
IsHexColor(s) ==
    LET h == IF s # <<>> /\ s[1] = "#" THEN Tail(s) ELSE s
    IN  Len(h) = 6 /\ \A i \in 1..6 : IsHexDigit(h[i])

NonHexLetters ==
    {"g", "h", "i", "j", "k", "l", "m", "n", "o", "p", "q", "r", "s", "t",
     "u", "v", "w", "x", "y", "z",
     "G", "H", "I", "J", "K", "L", "M", "N", "O", "P", "Q", "R", "S", "T",
     "U", "V", "W", "X", "Y", "Z"}

\* fewer than five characters after the leading '#'s, or a letter that is no
\* hex digit among the first six of them
IsMalformed(s) ==
    LET h == LStripHash(s)
    IN  \/ Len(h) < 5
        \/ \E i \in 1..Min(6, Len(h)) : h[i] \in NonHexLetters

\* C7 as stated: on every string that is not a '#rrggbb' colour hex_to_rgb
\* raises instead of returning a tuple.
C7_EveryNonColourRaises ==
    (hexPc \in {"returned", "ValueError"} /\ ~IsHexColor(hex_color))
        => hexPc = "ValueError"

\* C7, amended: when fewer than five characters follow the leading '#'s, or
\* one of the first six is a letter outside a-f and A-F, hex_to_rgb raises
\* ValueError, returns nothing, and the error reaches the caller.
C7_MalformedRaises ==
    (hexPc \in {"returned", "ValueError"} /\ IsMalformed(hex_color))
        => (hexPc = "ValueError" /\ hexOut = <<>>)

C7_Witness ==
    /\ hexPc = "ValueError"
    /\ hex_color = <<"#", "a", "F", "g", "a", "F", "a">>

Monotone(a, b, before, after) ==
    /\ a <= b => before <= after
    /\ a >= b => before >= after

Between(a, b, v) == Min(a, b) <= v /\ v <= (IF a < b THEN b ELSE a)

\* what C6 says of every pair of endpoints, whatever the pair
GradientEnds(a, b) ==
    /\ Interpolate(a, b, FInt(0)) = a
    /\ Interpolate(a, b, FInt(1)) = b
    /\ gradK = 0 => gradVal = a
    /\ gradK = 0 => GradientPixel(gradGen, 0, 0) = Rgb("dark")

\* C6 as stated: for any endpoints a, b in 0..255 the interpolation gives a
\* at factor 0 and b at factor 1, never reverses as x + y grows, and the
\* pixel at (0, 0) is the 'dark' colour.
C6_MonotoneForAnyPair ==
    /\ GradientEnds(gradPair[1], gradPair[2])
    /\ Monotone(gradPair[1], gradPair[2], gradPrev, gradVal)

\* C6, amended: the same for endpoints a # b; the value then also stays
\* between a and b.
C6_MonotoneForDistinctEnds ==
    /\ GradientEnds(gradPair[1], gradPair[2])
    /\ gradPair[1] # gradPair[2] =>
        /\ Monotone(gradPair[1], gradPair[2], gradPrev, gradVal)
        /\ Between(gradPair[1], gradPair[2], gradVal)

C6_Witness ==
    /\ gradGen = "dialog"
    /\ gradPair = <<Rgb("dark")[1], Rgb("dark_lighter")[1]>>
    /\ gradK = 269
    /\ gradPrev = 10
    /\ gradVal = 11

\* C5: through the corner-glow loop every channel of the pixel stays in
\* 0..255.
C5_GlowChannelsInRange == \A k \in 1..3 : glowPixel[k] \in 0..255

C5_Witness ==
    /\ glowHits = 1
    /\ glowI = CornerSize
    /\ \E k \in 1..3 :
        /\ glowStart[k] + GlowColor(glowXY[1] + glowXY[2])[k] > 255
        /\ glowPixel[k] = 255

\* x < y for doubles >= 0
FLess(x, y) ==
    LET e == IF x.e < y.e THEN x.e ELSE y.e
    IN  BCmp(FAlign(x, e), FAlign(y, e)) < 0

\* C8 as stated: alpha decreases with i, and once the loop is over every
\* pixel of the canvas with x + y = i < 80, the top row and the left column
\* included, has been blended exactly once, with the colour of diagonal i.
C8_EveryDiagonalPixelBlendedOnce ==
    /\ glowI \in 1..(CornerSize - 1) => FLess(GlowAlpha(glowI), GlowAlpha(glowI - 1))
    /\ ( /\ glowI = CornerSize
         /\ glowXY[1] + glowXY[2] < CornerSize
         /\ glowXY[1] < DialogWidth
         /\ glowXY[2] < DialogHeight )
        => /\ glowHits = 1
           /\ glowPixel = Blend(glowStart, GlowColor(glowXY[1] + glowXY[2]))

Count(seq, e) == Cardinality({i \in DOMAIN seq : seq[i] = e})

\* the first place of e in seq, 0 when it has none
Pos(seq, e) ==
    IF \E i \in DOMAIN seq : seq[i] = e
        THEN CHOOSE i \in DOMAIN seq : seq[i] = e /\ \A j \in 1..(i - 1) : seq[j] # e
    ELSE 0

\* e2 happened only after e1
Before(e1, e2) ==
    Pos(events, e2) > 0 => (Pos(events, e1) > 0 /\ Pos(events, e1) < Pos(events, e2))

Written(gen) == Count(events, gen \o ":write") > 0

FileAt(path) == {f \in files : f.path = path}

\* the file a finished generator left: one file, of the generator's size
OutputIs(gen, w, h) ==
    /\ Cardinality(FileAt(OutputPath(gen))) = 1
    /\ \A f \in FileAt(OutputPath(gen)) : f.size = <<w, h>>

\* C2: main() on an absent or empty output directory stops only when the
\* disk fails, and ends with exactly two files: banner.bmp, 493 x 58, and
\* dialog.bmp, 493 x 312.
C2_MainWritesTwoFiles ==
    (entry.fn = "main" /\ dir0 \in {"absent", "empty"}) =>
        /\ pc = "raised" => (exc = "OSError" /\ diskFail # "none")
        /\ pc = "done" =>
            {[path |-> f.path, size |-> f.size] : f \in files}
                = {[path |-> "src-tauri/wix/img/banner.bmp", size |-> <<493, 58>>],
                   [path |-> "src-tauri/wix/img/dialog.bmp", size |-> <<493, 312>>]}

C2_Witness ==
    /\ entry.fn = "main"
    /\ dir0 = "absent"
    /\ pc = "done"
    /\ Cardinality(files) = 2

\* no logo file at either candidate (main), or an argument that is None or
\* names no file (a generator called on its own)
NoLogoCase ==
    IF entry.fn = "main" THEN fsLogo = {}
    ELSE entry.logo = None \/ entry.logo \notin fsLogo

\* C3: without a logo file neither generator raises (only a failing disk or
\* a missing output directory stops it), and each writes its file: 493 x 58
\* and 493 x 312, with no logo on it.
C3_NoLogoStillGenerates ==
    (pc # "idle" /\ NoLogoCase) =>
        /\ pc = "raised" =>
            (exc = "OSError" /\ (diskFail # "none" \/ dir0 = "absent"))
        /\ Written("banner") => OutputIs("banner", 493, 58)
        /\ Written("dialog") => OutputIs("dialog", 493, 312)
        /\ \A f \in files : \A i \in DOMAIN f.layers : f.layers[i] # "logo"
        /\ Count(events, "banner:print_warning_could_not_load_logo") = 0
        /\ Count(events, "dialog:print_warning_could_not_load_logo") = 0

C3_Witness ==
    /\ entry = [fn |-> "create_banner", logo |-> Missing]
    /\ fsLogo = {Primary, Fallback}
    /\ pc = "done"
    /\ OutputIs("banner", 493, 58)

\* the generator's logo step is behind it
PastLogo(gen) ==
    \/ Written(gen)
    \/ pc \in {gen \o "_text", gen \o "_squares", gen \o "_glow", gen \o "_save"}
    \/ gen = "banner" /\ Count(events, "dialog:start") > 0

\* the canvas in img is gen's
Drawing(gen) ==
    pc \in {gen \o "_font", gen \o "_logo", gen \o "_text", gen \o "_squares",
            gen \o "_glow", gen \o "_save"}

\* the logo file is there, and one of the four calls on it raises
LogoFails(gen) ==
    /\ logo_path # None
    /\ logo_path \in fsLogo
    /\ LogoFailure(IF gen = "banner" THEN 42 ELSE 120, logoFile) # "none"

\* C4: when the logo exists and opening, resizing, converting or pasting it
\* fails, the generator prints its warning, raises nothing of it, has no
\* logo on the canvas, leaves the banner's text at x = 25 with
\* text_x_offset = 0, and writes its file at the right size.
C4_LogoFailureRecovered ==
    \A gen \in Generators :
        (Count(events, gen \o ":start") > 0 /\ LogoFails(gen)) =>
            /\ exc \in {"none", "OSError"}
            /\ PastLogo(gen) =>
                Count(events, gen \o ":print_warning_could_not_load_logo") = 1
            /\ Drawing(gen) => \A i \in DOMAIN img.layers : img.layers[i] # "logo"
            /\ (gen = "banner" /\ PastLogo(gen)) =>
                (text_x_offset = 0 /\ bannerX = 25)
            /\ Written(gen) =>
                /\ OutputIs(gen, 493, IF gen = "banner" THEN 58 ELSE 312)
                /\ \A f \in FileAt(OutputPath(gen)) :
                    \A i \in DOMAIN f.layers : f.layers[i] # "logo"

C4_Witness ==
    /\ entry.fn = "main"
    /\ pc = "done"
    /\ logoFile.failAt = "paste"
    /\ Count(events, "banner:print_warning_could_not_load_logo") = 1
    /\ Count(events, "dialog:print_warning_could_not_load_logo") = 1
    /\ bannerX = 25

\* the choice C9 describes
ExpectedLogo ==
    IF "static/favicon.png" \in fsLogo THEN "static/favicon.png"
    ELSE IF "src-tauri/icons/icon.png" \in fsLogo THEN "src-tauri/icons/icon.png"
    ELSE None

\* C9: main() hands both generators the same logo path: the primary
\* candidate if it exists, else the fallback if it exists, else None, and
\* then (and only then) with the warning printed.
C9_LogoPathChoice ==
    (entry.fn = "main" /\ pc # "main_logo") =>
        /\ logo_path = ExpectedLogo
        /\ \A i \in DOMAIN calls : calls[i].logo_path = ExpectedLogo
        /\ (Count(events, "main:print_warning_logo_not_found") = 1)
            <=> (ExpectedLogo = None)
        /\ Count(events, "main:print_warning_logo_not_found") <= 1

C9_Witness ==
    /\ entry.fn = "main"
    /\ fsLogo = {Primary, Fallback}
    /\ Len(calls) = 2
    /\ calls[1] = [fn |-> "create_banner", output_path |-> BannerPath,
                   logo_path |-> Primary]
    /\ calls[2] = [fn |-> "create_dialog", output_path |-> DialogPath,
                   logo_path |-> Primary]

\* C10: in main() the directory exists before any file is written,
\* banner.bmp is written before create_dialog starts, the success message
\* and the palette report come only after both files; and when
\* create_banner raises, create_dialog never starts and neither message is
\* printed.
C10_MainOrder ==
    entry.fn = "main" =>
        /\ files # InitialFiles(dir0) => dirExists
        /\ dir0 = "absent" => Before("main:makedirs", "banner:start")
        /\ Before("banner:start", "banner:write")
        /\ Before("banner:write", "dialog:start")
        /\ Before("dialog:start", "dialog:write")
        /\ Before("banner:write", "main:print_success")
        /\ Before("dialog:write", "main:print_success")
        /\ Before("main:print_success", "main:print_palette")
        /\ (pc = "raised" /\ ~Written("banner")) =>
            /\ Count(events, "dialog:start") = 0
            /\ Count(events, "main:print_success") = 0
            /\ Count(events, "main:print_palette") = 0

C10_Witness ==
    /\ entry.fn = "main"
    /\ pc = "raised"
    /\ diskFail = "banner"
    /\ Count(events, "banner:start") = 1
    /\ ~Written("banner")

====
